---- MODULE Spec2Model ----
(***************************************************************************)
(* Import synchronisation of a flogo app project (api/project.go).         *)
(*                                                                         *)
(* The project keeps its imports twice: in src/imports.go (the source      *)
(* import list) and in flogo.json (the manifest import list).  AddImports  *)
(* edits imports.go first, calling the dependency manager for every        *)
(* import, and flogo.json second; RemoveImports edits imports.go.          *)
(*                                                                         *)
(* Every call is modelled at the granularity of its accesses to the two    *)
(* files and to the dependency manager: one action per whole-file read,    *)
(* per AddDependency call and per whole-file write.                        *)
(***************************************************************************)
EXTENDS Integers, Sequences, FiniteSets, TLC

(***************************************************************************)
(* Bounds of the model.                                                    *)
(***************************************************************************)
MaxBatch == 2        \* imports passed to one AddImports call
MaxKeys == 2         \* import paths passed to one RemoveImports call
MaxManifest == 2     \* entries of the manifest import list of the initial project
MaxConcBatch == 1    \* imports passed to one of two concurrent AddImports calls

Procs == {1, 2}      \* invocations that may run against the project
Main == {1}          \* the single invocation of the sequential specification

BSeq(S, n) == UNION {[1..k -> S] : k \in 0..n}

Range(s) == {s[k] : k \in DOMAIN s}

RECURSIVE Perms(_)
Perms(S) ==
  IF S = {} THEN {<<>>}
  ELSE UNION {{<<x>> \o t : t \in Perms(S \ {x})} : x \in S}

(***************************************************************************)
(* util.Import: the Import Value.                                          *)
(***************************************************************************)
NewFlogoImport(modulePath, relativeImportPath, version, alias) ==
  [modulePath |-> modulePath, relativeImportPath |-> relativeImportPath,
   version |-> version, alias |-> alias]

\* the key: module path followed by the relative path
GoImportPath(i) == i.modulePath \o i.relativeImportPath

\* the canonical form, as the sequence of its lexical tokens:
\* [alias " "] modulePath ["@" version] [":" relativeImportPath]
CanonicalImport(i) ==
  (IF i.alias # "" THEN <<i.alias, " ">> ELSE <<>>)
    \o <<i.modulePath>>
    \o (IF i.version # "" THEN <<"@", i.version>> ELSE <<>>)
    \o (IF i.relativeImportPath # "" THEN <<":", i.relativeImportPath>> ELSE <<>>)

Separators == {" ", "@", ":"}

\* parse of one manifest import string; ok is FALSE when it has no parse
ParseImport(s) ==
  LET hasAlias == Len(s) >= 2 /\ s[2] = " "
      alias    == IF hasAlias THEN s[1] ELSE ""
      r1       == IF hasAlias THEN SubSeq(s, 3, Len(s)) ELSE s
      hasMod   == Len(r1) >= 1 /\ r1[1] \notin Separators
      r2       == IF hasMod THEN Tail(r1) ELSE <<>>
      hasVer   == Len(r2) >= 2 /\ r2[1] = "@" /\ r2[2] \notin Separators
      version  == IF hasVer THEN r2[2] ELSE ""
      r3       == IF hasVer THEN SubSeq(r2, 3, Len(r2)) ELSE r2
      hasRel   == Len(r3) = 2 /\ r3[1] = ":" /\ r3[2] \notin Separators
      rel      == IF hasRel THEN r3[2] ELSE ""
  IN  [ok  |-> hasMod /\ alias \notin Separators /\ (r3 = <<>> \/ hasRel),
       imp |-> NewFlogoImport(IF hasMod THEN r1[1] ELSE "", rel, version, alias)]

\* best-effort parse of the manifest import list: the entries that have no
\* parse are treated as absent
ParseImports(flogoImports) ==
  LET parsed == [k \in DOMAIN flogoImports |-> ParseImport(flogoImports[k])]
      RECURSIVE Collect(_)
      Collect(k) ==
        IF k = 0 THEN <<>>
        ELSE IF parsed[k].ok THEN Append(Collect(k - 1), parsed[k].imp)
        ELSE Collect(k - 1)
  IN  Collect(Len(flogoImports))

\* util.AddImport: insert the path into the import block unless it is there
AddImport(file, path) ==
  IF path \in Range(file) THEN file ELSE Append(file, path)

\* util.DeleteImport: delete the entries whose path matches exactly
DeleteImport(file, path) == SelectSeq(file, LAMBDA x : x # path)

(***************************************************************************)
(* The inputs of the model.                                                *)
(***************************************************************************)
\* module "m" in the versions and aliases a conflict needs, and a second
\* import "n" with a relative path
Imports ==
  {NewFlogoImport("m", "", "v1", "a"), NewFlogoImport("m", "", "v2", ""),
   NewFlogoImport("m", "", "v2", "b"), NewFlogoImport("n", "/x", "", "")}

Keys == {GoImportPath(i) : i \in Imports}

\* a manifest import string that has no parse
BadEntry == <<"@", "@">>

ManifestEntries == {CanonicalImport(i) : i \in Imports} \cup {BadEntry}

AppName == "app"

\* the batches of AddImports: no import value twice
Batches == {b \in BSeq(Imports, MaxBatch) : Cardinality(Range(b)) = Len(b)}

\* import blocks of imports.go: no path twice
SourceLists == {s \in BSeq(Keys, Cardinality(Keys)) : Cardinality(Range(s)) = Len(s)}

(***************************************************************************)
(* State.                                                                  *)
(***************************************************************************)
VARIABLES
  importsGo,      \* src/imports.go: [ok, imports]; ok is FALSE when it does not parse
  flogoJson,      \* flogo.json: [exists, valid, name, imports]
  unavailable,    \* module paths the dependency manager cannot install
  pc,             \* position of each invocation
  call,           \* arguments of each invocation: [op, ignoreError, imports]
  file,           \* addImportsInGo / RemoveImports: the parsed import block
  idx,            \* addImportsInGo: number of imports the loop has handled
  appDescriptor,  \* addImportsInJson: the unmarshalled app.Config
  err,            \* result of the invocation: "nil" or "error"
  installed,      \* imports passed to AddDependency by the invocation
  trace,          \* file accesses and dependency manager calls of the invocation
  pre,            \* both files as they were when the invocation started
  again           \* the invocation repeats the call that returned just before it,
                  \* from the files as that call left them

vars == <<importsGo, flogoJson, unavailable, pc, call, file, idx,
          appDescriptor, err, installed, trace, pre, again>>

Files == [importsGo |-> importsGo, flogoJson |-> flogoJson]

NoCall == [op |-> "none", ignoreError |-> FALSE, imports |-> <<>>]
ZeroConfig == [name |-> "", imports |-> <<>>]
NoFiles == [importsGo |-> [ok |-> FALSE, imports |-> <<>>],
            flogoJson |-> [exists |-> FALSE, valid |-> FALSE, name |-> "", imports |-> <<>>]]

Init ==
  /\ importsGo \in {[ok |-> TRUE, imports |-> s] : s \in SourceLists}
                     \cup {[ok |-> FALSE, imports |-> <<>>]}
  /\ flogoJson \in {[exists |-> TRUE, valid |-> TRUE, name |-> AppName, imports |-> s] :
                       s \in BSeq(ManifestEntries, MaxManifest)}
                     \cup {[exists |-> TRUE, valid |-> FALSE, name |-> AppName, imports |-> <<>>],
                           [exists |-> FALSE, valid |-> FALSE, name |-> "", imports |-> <<>>]}
  /\ unavailable \in {{}, {"n"}}
  /\ pc = [p \in Procs |-> "idle"]
  /\ call = [p \in Procs |-> NoCall]
  /\ file = [p \in Procs |-> <<>>]
  /\ idx = [p \in Procs |-> 0]
  /\ appDescriptor = [p \in Procs |-> ZeroConfig]
  /\ err = [p \in Procs |-> "nil"]
  /\ installed = [p \in Procs |-> <<>>]
  /\ trace = [p \in Procs |-> <<>>]
  /\ pre = [p \in Procs |-> NoFiles]
  /\ again = [p \in Procs |-> FALSE]

(***************************************************************************)
(* addImportsInJson: the merge of a batch into the manifest import list.   *)
(* A Go map is a function from its keys to its values.                     *)
(***************************************************************************)
EmptyMap == [k \in {} |-> NewFlogoImport("", "", "", "")]
MapPut(m, k, v) == [x \in DOMAIN m \cup {k} |-> IF x = k THEN v ELSE m[x]]
MapDelete(m, k) == [x \in DOMAIN m \ {k} |-> m[x]]

\* json.Unmarshal with its error dropped: content that does not parse leaves
\* the zero app.Config
Unmarshal(f) ==
  IF f.valid THEN [name |-> f.name, imports |-> f.imports] ELSE ZeroConfig

\* existingImports: the later entry of a key replaces the earlier one
RECURSIVE ExistingImports(_)
ExistingImports(jsonImports) ==
  IF jsonImports = <<>> THEN EmptyMap
  ELSE LET n == Len(jsonImports)
           e == jsonImports[n]
       IN  MapPut(ExistingImports(SubSeq(jsonImports, 1, n - 1)), GoImportPath(e), e)

\* MergeImport without the insertion of an import whose key is new
MergeImportNoInsert(existingImports, i) ==
  IF GoImportPath(i) \notin DOMAIN existingImports
  THEN existingImports
  ELSE LET val == existingImports[GoImportPath(i)]
       IN  IF CanonicalImport(i) # CanonicalImport(val)
           THEN LET alias == IF val.alias # "" /\ i.alias = "" THEN val.alias ELSE i.alias
                IN  MapPut(MapDelete(existingImports, GoImportPath(val)), GoImportPath(i),
                           NewFlogoImport(i.modulePath, i.relativeImportPath, i.version, alias))
           ELSE existingImports

\* MergeImport that always takes the alias of the incoming import
MergeImportIncomingAlias(existingImports, i) ==
  IF GoImportPath(i) \notin DOMAIN existingImports
  THEN MapPut(existingImports, GoImportPath(i), i)
  ELSE LET val == existingImports[GoImportPath(i)]
       IN  IF CanonicalImport(i) # CanonicalImport(val)
           THEN MapPut(MapDelete(existingImports, GoImportPath(val)), GoImportPath(i),
                       NewFlogoImport(i.modulePath, i.relativeImportPath, i.version, i.alias))
           ELSE existingImports

\* MergeImport that deletes a conflicting entry and does not put the merged one
MergeImportDeleteOnly(existingImports, i) ==
  IF GoImportPath(i) \notin DOMAIN existingImports
  THEN MapPut(existingImports, GoImportPath(i), i)
  ELSE LET val == existingImports[GoImportPath(i)]
       IN  IF CanonicalImport(i) # CanonicalImport(val)
           THEN MapDelete(existingImports, GoImportPath(val))
           ELSE existingImports

\* MergeImport that keeps the version of the existing entry on a conflict
MergeImportKeepVersion(existingImports, i) ==
  IF GoImportPath(i) \notin DOMAIN existingImports
  THEN MapPut(existingImports, GoImportPath(i), i)
  ELSE LET val == existingImports[GoImportPath(i)]
       IN  IF CanonicalImport(i) # CanonicalImport(val)
           THEN LET alias == IF val.alias # "" /\ i.alias = "" THEN val.alias ELSE i.alias
                IN  MapPut(MapDelete(existingImports, GoImportPath(val)), GoImportPath(i),
                           NewFlogoImport(i.modulePath, i.relativeImportPath, val.version, alias))
           ELSE existingImports

\* body of the loop over the incoming imports
MergeImport(existingImports, i) ==
  IF GoImportPath(i) \notin DOMAIN existingImports
  THEN MapPut(existingImports, GoImportPath(i), i)
  ELSE LET val == existingImports[GoImportPath(i)]
       IN  IF CanonicalImport(i) # CanonicalImport(val)
           THEN LET alias == IF val.alias # "" /\ i.alias = "" THEN val.alias ELSE i.alias
                IN  MapPut(MapDelete(existingImports, GoImportPath(val)), GoImportPath(i),
                           NewFlogoImport(i.modulePath, i.relativeImportPath, i.version, alias))
           ELSE existingImports

RECURSIVE MergeImports(_, _)
MergeImports(existingImports, imports) ==
  IF imports = <<>> THEN existingImports
  ELSE MergeImports(MergeImport(existingImports, Head(imports)), Tail(imports))

\* NewImport that appends the incoming imports to the list that was read
NewImportAppend(config, imports) ==
  {config.imports \o [k \in DOMAIN imports |-> CanonicalImport(imports[k])]}

\* NewImport that starts from an empty map instead of the existing imports
NewImportOnlyBatch(config, imports) ==
  LET merged == MergeImports(EmptyMap, imports)
  IN  {[k \in DOMAIN order |-> CanonicalImport(merged[order[k]])] :
         order \in Perms(DOMAIN merged)}

\* the lists newImport can be: the canonical forms of the map's values in
\* an iteration order of the map
NewImport(config, imports) ==
  LET merged == MergeImports(ExistingImports(ParseImports(config.imports)), imports)
  IN  {[k \in DOMAIN order |-> CanonicalImport(merged[order[k]])] :
         order \in Perms(DOMAIN merged)}

(***************************************************************************)
(* AddImports                                                              *)
(***************************************************************************)
\* an invocation starts by parsing imports.go
Begin(p, c, repeat) ==
  /\ call' = [call EXCEPT ![p] = c]
  /\ pre' = [pre EXCEPT ![p] = Files]
  /\ again' = [again EXCEPT ![p] = repeat]
  /\ installed' = [installed EXCEPT ![p] = <<>>]
  /\ trace' = [trace EXCEPT ![p] = <<"ParseFile">>]
  /\ idx' = [idx EXCEPT ![p] = 0]
  /\ appDescriptor' = [appDescriptor EXCEPT ![p] = ZeroConfig]
  /\ IF importsGo.ok
     THEN /\ file' = [file EXCEPT ![p] = importsGo.imports]
          /\ err' = [err EXCEPT ![p] = "nil"]
          /\ pc' = [pc EXCEPT ![p] = IF c.op = "add" THEN "addImportsInGo" ELSE "RemoveImports"]
     ELSE /\ file' = [file EXCEPT ![p] = <<>>]
          /\ err' = [err EXCEPT ![p] = "error"]
          /\ pc' = [pc EXCEPT ![p] = "done"]
  /\ UNCHANGED <<importsGo, flogoJson, unavailable>>

AddImports(p, ignoreError, imports) ==
  /\ pc[p] = "idle"
  /\ Begin(p, [op |-> "add", ignoreError |-> ignoreError, imports |-> imports], FALSE)

\* AfterGo without the check of the error
AfterGoUnchecked(goErr) == "addImportsInJson"

\* AddImports after addImportsInGo returned goErr
AfterGo(goErr) == IF goErr # "nil" THEN "done" ELSE "addImportsInJson"

\* AddDependency that leaves the loop on a failure instead of returning
AddDependencyBreak(p) ==
  /\ pc[p] = "addImportsInGo"
  /\ idx[p] < Len(call[p].imports)
  /\ LET i == call[p].imports[idx[p] + 1]
     IN  /\ installed' = [installed EXCEPT ![p] = Append(@, i)]
         /\ trace' = [trace EXCEPT ![p] = Append(@, "AddDependency")]
         /\ IF i.modulePath \in unavailable
            THEN IF call[p].ignoreError
                 THEN /\ idx' = [idx EXCEPT ![p] = @ + 1]
                      /\ UNCHANGED <<file, err, pc>>
                 ELSE /\ err' = [err EXCEPT ![p] = "error"]
                      /\ idx' = [idx EXCEPT ![p] = Len(call[p].imports)]
                      /\ UNCHANGED <<file, pc>>
            ELSE /\ file' = [file EXCEPT ![p] = AddImport(@, GoImportPath(i))]
                 /\ idx' = [idx EXCEPT ![p] = @ + 1]
                 /\ UNCHANGED <<err, pc>>
  /\ UNCHANGED <<importsGo, flogoJson, unavailable, call, appDescriptor, pre, again>>

\* one iteration of the loop of addImportsInGo
AddDependency(p) ==
  /\ pc[p] = "addImportsInGo"
  /\ idx[p] < Len(call[p].imports)
  /\ LET i == call[p].imports[idx[p] + 1]
     IN  /\ installed' = [installed EXCEPT ![p] = Append(@, i)]
         /\ trace' = [trace EXCEPT ![p] = Append(@, "AddDependency")]
         /\ IF i.modulePath \in unavailable
            THEN IF call[p].ignoreError
                 THEN /\ idx' = [idx EXCEPT ![p] = @ + 1]
                      /\ UNCHANGED <<file, err, pc>>
                 ELSE /\ err' = [err EXCEPT ![p] = "error"]
                      /\ pc' = [pc EXCEPT ![p] = AfterGo("error")]
                      /\ UNCHANGED <<file, idx>>
            ELSE /\ file' = [file EXCEPT ![p] = AddImport(@, GoImportPath(i))]
                 /\ idx' = [idx EXCEPT ![p] = @ + 1]
                 /\ UNCHANGED <<err, pc>>
  /\ UNCHANGED <<importsGo, flogoJson, unavailable, call, appDescriptor, pre, again>>

\* the end of addImportsInGo: imports.go is printed from the edited tree
PrintImportsGo(p) ==
  /\ pc[p] = "addImportsInGo"
  /\ idx[p] = Len(call[p].imports)
  /\ importsGo' = [ok |-> TRUE, imports |-> file[p]]
  /\ trace' = [trace EXCEPT ![p] = Append(@, "Fprint")]
  /\ pc' = [pc EXCEPT ![p] = AfterGo("nil")]
  /\ UNCHANGED <<flogoJson, unavailable, call, file, idx, appDescriptor, err,
                 installed, pre, again>>

\* ReadFlogoJson that takes a missing flogo.json for an empty one
ReadFlogoJsonCreate(p) ==
  /\ pc[p] = "addImportsInJson"
  /\ trace' = [trace EXCEPT ![p] = Append(@, "Open")]
  /\ appDescriptor' = [appDescriptor EXCEPT ![p] =
                         IF flogoJson.exists THEN Unmarshal(flogoJson) ELSE ZeroConfig]
  /\ pc' = [pc EXCEPT ![p] = "WriteFile"]
  /\ UNCHANGED <<importsGo, flogoJson, unavailable, call, file, idx, installed,
                 err, pre, again>>

\* addImportsInJson: flogo.json is opened, read and unmarshalled
ReadFlogoJson(p) ==
  /\ pc[p] = "addImportsInJson"
  /\ trace' = [trace EXCEPT ![p] = Append(@, "Open")]
  /\ IF flogoJson.exists
     THEN /\ appDescriptor' = [appDescriptor EXCEPT ![p] = Unmarshal(flogoJson)]
          /\ pc' = [pc EXCEPT ![p] = "WriteFile"]
          /\ UNCHANGED err
     ELSE /\ err' = [err EXCEPT ![p] = "error"]
          /\ pc' = [pc EXCEPT ![p] = "done"]
          /\ UNCHANGED appDescriptor
  /\ UNCHANGED <<importsGo, flogoJson, unavailable, call, file, idx, installed,
                 pre, again>>

\* addImportsInJson: the batch is merged and flogo.json is written
WriteFlogoJson(p) ==
  /\ pc[p] = "WriteFile"
  /\ \E newImport \in NewImport(appDescriptor[p], call[p].imports) :
       flogoJson' = [exists |-> TRUE, valid |-> TRUE,
                     name |-> appDescriptor[p].name, imports |-> newImport]
  /\ trace' = [trace EXCEPT ![p] = Append(@, "WriteFile")]
  /\ err' = [err EXCEPT ![p] = "nil"]
  /\ pc' = [pc EXCEPT ![p] = "done"]
  /\ UNCHANGED <<importsGo, unavailable, call, file, idx, appDescriptor, installed,
                 pre, again>>

(***************************************************************************)
(* RemoveImports                                                           *)
(***************************************************************************)
RemoveImports(p, imports) ==
  /\ pc[p] = "idle"
  /\ Begin(p, [op |-> "remove", ignoreError |-> FALSE, imports |-> imports], FALSE)

RECURSIVE DeleteImports(_, _)
DeleteImports(f, imports) ==
  IF imports = <<>> THEN f
  ELSE DeleteImports(DeleteImport(f, Head(imports)), Tail(imports))

\* PrintRemoved that fails on a path the import block does not hold
PrintRemovedStrict(p) ==
  /\ pc[p] = "RemoveImports"
  /\ IF Range(call[p].imports) \subseteq Range(file[p])
     THEN /\ file' = [file EXCEPT ![p] = DeleteImports(@, call[p].imports)]
          /\ importsGo' = [ok |-> TRUE, imports |-> file'[p]]
          /\ UNCHANGED err
     ELSE /\ err' = [err EXCEPT ![p] = "error"]
          /\ UNCHANGED <<file, importsGo>>
  /\ trace' = [trace EXCEPT ![p] = Append(@, "Fprint")]
  /\ pc' = [pc EXCEPT ![p] = "done"]
  /\ UNCHANGED <<flogoJson, unavailable, call, idx, appDescriptor, installed,
                 pre, again>>

\* the paths are deleted from the tree and imports.go is printed
PrintRemoved(p) ==
  /\ pc[p] = "RemoveImports"
  /\ file' = [file EXCEPT ![p] = DeleteImports(@, call[p].imports)]
  /\ importsGo' = [ok |-> TRUE, imports |-> file'[p]]
  /\ trace' = [trace EXCEPT ![p] = Append(@, "Fprint")]
  /\ pc' = [pc EXCEPT ![p] = "done"]
  /\ UNCHANGED <<flogoJson, unavailable, call, idx, appDescriptor, err, installed,
                 pre, again>>

(***************************************************************************)
(* The caller, once a call has returned: it makes the same call once more  *)
(* or goes on to any other call.                                           *)
(***************************************************************************)
Repeat(p) ==
  /\ pc[p] = "done"
  /\ ~again[p]
  /\ Begin(p, call[p], TRUE)

Return(p) ==
  /\ pc[p] = "done"
  /\ pc' = [pc EXCEPT ![p] = "idle"]
  /\ call' = [call EXCEPT ![p] = NoCall]
  /\ file' = [file EXCEPT ![p] = <<>>]
  /\ idx' = [idx EXCEPT ![p] = 0]
  /\ appDescriptor' = [appDescriptor EXCEPT ![p] = ZeroConfig]
  /\ err' = [err EXCEPT ![p] = "nil"]
  /\ installed' = [installed EXCEPT ![p] = <<>>]
  /\ trace' = [trace EXCEPT ![p] = <<>>]
  /\ pre' = [pre EXCEPT ![p] = NoFiles]
  /\ again' = [again EXCEPT ![p] = FALSE]
  /\ UNCHANGED <<importsGo, flogoJson, unavailable>>

Step(p) ==
  \/ \E ignoreError \in BOOLEAN, imports \in Batches :
       AddImports(p, ignoreError, imports)
  \/ AddDependency(p)
  \/ PrintImportsGo(p)
  \/ ReadFlogoJson(p)
  \/ WriteFlogoJson(p)
  \/ \E imports \in BSeq(Keys, MaxKeys) : RemoveImports(p, imports)
  \/ PrintRemoved(p)
  \/ Repeat(p)
  \/ Return(p)

Next == \E p \in Main : Step(p)

Spec == Init /\ [][Next]_vars

(***************************************************************************)
(* Two invocations of AddImports against the same project, with no lock:   *)
(* their file reads, AddDependency calls and file writes interleave.  The  *)
(* project starts synchronised, every module can be installed, and the     *)
(* batches of the two invocations have no key in common.                   *)
(***************************************************************************)
ConcImports(p) ==
  {i \in Imports : i.modulePath = (IF p = 1 THEN "m" ELSE "n")}

ConcBatches(p) == BSeq(ConcImports(p), MaxConcBatch) \ {<<>>}

ConcInit ==
  /\ Init
  /\ unavailable = {}
  /\ importsGo.ok /\ flogoJson.exists /\ flogoJson.valid
  /\ \A k \in DOMAIN flogoJson.imports : ParseImport(flogoJson.imports[k]).ok
  /\ Range(importsGo.imports)
       = {GoImportPath(ParseImport(flogoJson.imports[k]).imp) : k \in DOMAIN flogoJson.imports}
  /\ Len(importsGo.imports) = Len(flogoJson.imports)

ConcStep(p) ==
  \/ \E imports \in ConcBatches(p) : AddImports(p, FALSE, imports)
  \/ AddDependency(p)
  \/ PrintImportsGo(p)
  \/ ReadFlogoJson(p)
  \/ WriteFlogoJson(p)

ConcNext == \E p \in Procs : ConcStep(p)

SpecConc == ConcInit /\ [][ConcNext]_vars

TypeOK ==
  /\ importsGo.ok \in BOOLEAN
  /\ flogoJson.exists \in BOOLEAN
  /\ \A p \in Procs : pc[p] \in {"idle", "addImportsInGo", "addImportsInJson",
                                 "WriteFile", "RemoveImports", "done"}

(***************************************************************************)
(* Vocabulary of the properties.                                           *)
(***************************************************************************)
\* key set of the source import list
SrcKeys(f) == IF f.ok THEN Range(f.imports) ELSE {}

\* the manifest import list as flogo.json holds it
ManList(f) == IF f.exists /\ f.valid THEN f.imports ELSE <<>>

\* key set of the manifest import list
ManKeys(f) == {GoImportPath(i) : i \in Range(ParseImports(ManList(f)))}

Resolves(i) == i.modulePath \notin unavailable

BatchKeys(p) == {GoImportPath(i) : i \in Range(call[p].imports)}

Count(s, e) == Cardinality({k \in DOMAIN s : s[k] = e})

\* the same entries, in any order
SameEntries(a, b) ==
  /\ Len(a) = Len(b)
  /\ \A e \in Range(a) \cup Range(b) : Count(a, e) = Count(b, e)

Returned(p, op) == pc[p] = "done" /\ call[p].op = op

WellFormed(f) == f.importsGo.ok /\ f.flogoJson.exists /\ f.flogoJson.valid

(***************************************************************************)
(* C1: AddImports(true, I) from a state where no key of I is in either     *)
(* representation returns no error, leaves every import of I that          *)
(* resolves in both import lists and every import of I that fails          *)
(* resolution in neither.                                                  *)
(***************************************************************************)
C1_IgnoreModePartialSuccess ==
  \A p \in Main :
    ( /\ Returned(p, "add") /\ call[p].ignoreError
      /\ WellFormed(pre[p])
      /\ BatchKeys(p) \cap (SrcKeys(pre[p].importsGo) \cup ManKeys(pre[p].flogoJson)) = {} )
    => /\ err[p] = "nil"
       /\ \A i \in Range(call[p].imports) :
            IF Resolves(i)
            THEN /\ GoImportPath(i) \in SrcKeys(importsGo)
                 /\ GoImportPath(i) \in ManKeys(flogoJson)
            ELSE /\ GoImportPath(i) \notin SrcKeys(importsGo)
                 /\ GoImportPath(i) \notin ManKeys(flogoJson)

(***************************************************************************)
(* C2: AddImports(false, I) with an import of I that fails resolution      *)
(* returns an error, never reaches addImportsInJson and leaves flogo.json  *)
(* as it was before the call.                                              *)
(***************************************************************************)
C2_StrictModeAbort ==
  \A p \in Main :
    ( /\ Returned(p, "add") /\ ~call[p].ignoreError
      /\ \E i \in Range(call[p].imports) : ~Resolves(i) )
    => /\ err[p] = "error"
       /\ flogoJson = pre[p].flogoJson
       /\ "Open" \notin Range(trace[p])
       /\ "WriteFile" \notin Range(trace[p])

C2_Witness ==
  \E p \in Main :
    /\ Returned(p, "add") /\ ~call[p].ignoreError
    /\ WellFormed(pre[p])
    /\ Len(call[p].imports) = 2
    /\ Resolves(call[p].imports[1]) /\ ~Resolves(call[p].imports[2])
    /\ Len(installed[p]) = 2
    /\ err[p] = "error"

(***************************************************************************)
(* C3: after a RemoveImports(K) that returns no error, no key of K is in   *)
(* the key set of the source import list or in the key set of the          *)
(* manifest import list.                                                   *)
(***************************************************************************)
C3_RemoveExcludesKeys ==
  \A p \in Main :
    (Returned(p, "remove") /\ err[p] = "nil")
    => \A k \in Range(call[p].imports) :
         k \notin SrcKeys(importsGo) /\ k \notin ManKeys(flogoJson)

(***************************************************************************)
(* C4: after an AddImports(false, I) that returns no error, the key sets   *)
(* of the source import list and of the manifest import list both contain  *)
(* the keys of I.                                                          *)
(***************************************************************************)
C4_KeySetConvergence ==
  \A p \in Main :
    (Returned(p, "add") /\ ~call[p].ignoreError /\ err[p] = "nil")
    => /\ BatchKeys(p) \subseteq SrcKeys(importsGo)
       /\ BatchKeys(p) \subseteq ManKeys(flogoJson)

C4_Witness ==
  \E p \in Main :
    /\ Returned(p, "add") /\ ~call[p].ignoreError /\ err[p] = "nil"
    /\ WellFormed(pre[p])
    /\ Cardinality(BatchKeys(p)) = 2
    /\ BatchKeys(p) \cap (SrcKeys(pre[p].importsGo) \cup ManKeys(pre[p].flogoJson)) = {}

(***************************************************************************)
(* C5: alias carry-over.  When the manifest holds an entry of the key of   *)
(* an incoming import, with another canonical form, the entry of that key  *)
(* after the call has the incoming module path, relative path and version; *)
(* its alias is the existing alias when the incoming alias is empty and    *)
(* the existing one is not, and the incoming alias when that is not empty. *)
(***************************************************************************)
\* the entry flogo.json held for the key before the call
Existing(p, k) == ExistingImports(ParseImports(ManList(pre[p].flogoJson)))[k]

\* the only import of the batch with key k is the import i
OnlyOfKey(p, i) ==
  Cardinality({n \in DOMAIN call[p].imports :
                 GoImportPath(call[p].imports[n]) = GoImportPath(i)}) = 1

\* the entries flogo.json holds for key k
EntriesOf(f, k) == {e \in Range(ParseImports(ManList(f))) : GoImportPath(e) = k}

C5_AliasCarryOver ==
  \A p \in Main :
    (Returned(p, "add") /\ err[p] = "nil")
    => \A i \in Range(call[p].imports) :
         ( /\ OnlyOfKey(p, i)
           /\ GoImportPath(i) \in ManKeys(pre[p].flogoJson)
           /\ CanonicalImport(i) # CanonicalImport(Existing(p, GoImportPath(i))) )
         => /\ i.alias = "" /\ Existing(p, GoImportPath(i)).alias # ""
               => EntriesOf(flogoJson, GoImportPath(i)) =
                    {NewFlogoImport(i.modulePath, i.relativeImportPath, i.version,
                                    Existing(p, GoImportPath(i)).alias)}
            /\ i.alias # "" => EntriesOf(flogoJson, GoImportPath(i)) = {i}

C5_Witness ==
  \E p \in Main :
    /\ Returned(p, "add") /\ err[p] = "nil"
    /\ call[p].imports = <<NewFlogoImport("m", "", "v2", "")>>
    /\ pre[p].flogoJson.valid
    /\ pre[p].flogoJson.imports = <<CanonicalImport(NewFlogoImport("m", "", "v1", "a"))>>
    /\ flogoJson.imports = <<CanonicalImport(NewFlogoImport("m", "", "v2", "a"))>>

(***************************************************************************)
(* C6: idempotence of add.  AddImports with one import that resolves,      *)
(* called a second time, leaves both import lists with the key sets and    *)
(* the manifest with the import entries the first call left.               *)
(***************************************************************************)
C6_AddIdempotent ==
  \A p \in Main :
    ( /\ Returned(p, "add") /\ again[p]
      /\ Len(call[p].imports) = 1 /\ Resolves(call[p].imports[1]) )
    => /\ SrcKeys(importsGo) = SrcKeys(pre[p].importsGo)
       /\ ManKeys(flogoJson) = ManKeys(pre[p].flogoJson)
       /\ SameEntries(ManList(flogoJson), ManList(pre[p].flogoJson))

C6_Witness ==
  \E p \in Main :
    /\ Returned(p, "add") /\ again[p] /\ err[p] = "nil"
    /\ Len(call[p].imports) = 1 /\ Resolves(call[p].imports[1])
    /\ call[p].imports[1].alias = ""
    /\ ManList(flogoJson) # <<CanonicalImport(call[p].imports[1])>>
    /\ GoImportPath(call[p].imports[1]) \in ManKeys(flogoJson)
    /\ "WriteFile" \in Range(trace[p])

(***************************************************************************)
(* C7: idempotence of remove.  RemoveImports of keys the source import     *)
(* list does not hold returns no error and leaves the source import list   *)
(* as it was; RemoveImports called a second time leaves both files as the  *)
(* first call left them.                                                   *)
(***************************************************************************)
C7_RemoveIdempotent ==
  \A p \in Main :
    /\ ( /\ Returned(p, "remove") /\ pre[p].importsGo.ok
         /\ Range(call[p].imports) \cap SrcKeys(pre[p].importsGo) = {} )
       => err[p] = "nil" /\ importsGo = pre[p].importsGo
    /\ (Returned(p, "remove") /\ again[p])
       => Files = pre[p]

C7_Witness ==
  \E p \in Main :
    /\ Returned(p, "remove") /\ again[p] /\ err[p] = "nil"
    /\ call[p].imports # <<>>
    /\ importsGo.imports # <<>>
    /\ Range(call[p].imports) \cap SrcKeys(pre[p].importsGo) = {}

(***************************************************************************)
(* C8: after any AddImports or RemoveImports call, the name of the app in  *)
(* flogo.json is the name it was before the call, also when the content    *)
(* of flogo.json did not parse.                                            *)
(***************************************************************************)
C8_Preservation ==
  \A p \in Main :
    (pc[p] = "done" /\ pre[p].flogoJson.exists)
    => flogoJson.name = pre[p].flogoJson.name

(***************************************************************************)
(* C9: after an AddImports call that wrote flogo.json, every entry of the  *)
(* manifest import list parses and no two entries have the same key.       *)
(***************************************************************************)
C9_NoDuplicateKeys ==
  \A p \in Main :
    (Returned(p, "add") /\ "WriteFile" \in Range(trace[p]))
    => /\ \A k \in DOMAIN flogoJson.imports : ParseImport(flogoJson.imports[k]).ok
       /\ \A j, k \in DOMAIN flogoJson.imports :
            j # k => GoImportPath(ParseImport(flogoJson.imports[j]).imp)
                       # GoImportPath(ParseImport(flogoJson.imports[k]).imp)

C9_Witness ==
  \E p \in Main :
    /\ Returned(p, "add") /\ "WriteFile" \in Range(trace[p])
    /\ pre[p].flogoJson.valid
    /\ Len(pre[p].flogoJson.imports) = 2
    /\ Cardinality(ManKeys(pre[p].flogoJson)) = 1
    /\ Len(call[p].imports) = 2
    /\ BatchKeys(p) = ManKeys(pre[p].flogoJson)
    /\ call[p].imports[1] # call[p].imports[2]

(***************************************************************************)
(* C10: when imports.go or the content of flogo.json does not parse,       *)
(* AddImports returns an error and does not rewrite the file that does     *)
(* not parse.                                                              *)
(***************************************************************************)
C10_ParseFailureAborts ==
  \A p \in Main :
    Returned(p, "add")
    => /\ ~pre[p].importsGo.ok
          => err[p] = "error" /\ importsGo = pre[p].importsGo
       /\ (pre[p].importsGo.ok /\ pre[p].flogoJson.exists /\ ~pre[p].flogoJson.valid
             /\ \A i \in Range(call[p].imports) : Resolves(i))
          => err[p] = "error" /\ flogoJson = pre[p].flogoJson

(***************************************************************************)
(* C11: key-set equality is kept by every call that returns no error: a    *)
(* call that starts with equal key sets of the source import list and of   *)
(* the manifest import list ends with equal key sets.                      *)
(***************************************************************************)
C11_KeySetEquality ==
  \A p \in Main :
    ( /\ pc[p] = "done" /\ err[p] = "nil"
      /\ WellFormed(pre[p])
      /\ SrcKeys(pre[p].importsGo) = ManKeys(pre[p].flogoJson) )
    => SrcKeys(importsGo) = ManKeys(flogoJson)

(***************************************************************************)
(* C12: order-insensitivity of a batch.  After AddImports(I) with every    *)
(* import of I resolving, the source import list and the manifest import   *)
(* entries are those every permutation of I leads to from the same files.  *)
(***************************************************************************)
Reorderings(s) == {[k \in DOMAIN s |-> s[f[k]]] : f \in Perms(DOMAIN s)}

\* the entries the manifest import list gets from the batch
MergedEntries(config, imports) ==
  LET merged == MergeImports(ExistingImports(ParseImports(config.imports)), imports)
  IN  {merged[k] : k \in DOMAIN merged}

RECURSIVE AddAll(_, _)
AddAll(f, imports) ==
  IF imports = <<>> THEN f
  ELSE AddAll(AddImport(f, GoImportPath(Head(imports))), Tail(imports))

C12_OrderInsensitive ==
  \A p \in Main :
    ( /\ Returned(p, "add") /\ err[p] = "nil"
      /\ \A i \in Range(call[p].imports) : Resolves(i) )
    => \A other \in Reorderings(call[p].imports) :
         /\ Range(ParseImports(ManList(flogoJson)))
              = MergedEntries(Unmarshal(pre[p].flogoJson), other)
         /\ SrcKeys(importsGo) = Range(AddAll(pre[p].importsGo.imports, other))

(***************************************************************************)
(* C13: ordering of the add.  flogo.json is opened and written only after  *)
(* every import of the batch went to AddDependency and imports.go was      *)
(* printed, and AddImports returns no error only when imports.go and       *)
(* flogo.json were both written.                                           *)
(***************************************************************************)
Positions(t, e) == {k \in DOMAIN t : t[k] = e}

C13_SourceBeforeManifest ==
  \A p \in Main :
    call[p].op = "add"
    => /\ \A k \in Positions(trace[p], "Open") \cup Positions(trace[p], "WriteFile") :
            /\ \E j \in Positions(trace[p], "Fprint") : j < k
            /\ \A j \in Positions(trace[p], "AddDependency") : j < k
            /\ Cardinality(Positions(trace[p], "AddDependency")) = Len(call[p].imports)
            /\ importsGo.ok
       /\ \A k \in Positions(trace[p], "WriteFile") :
            \E j \in Positions(trace[p], "Open") : j < k
       /\ (pc[p] = "done" /\ err[p] = "nil")
            => Positions(trace[p], "Fprint") # {} /\ Positions(trace[p], "WriteFile") # {}

C13_Witness ==
  \E p \in Main :
    /\ Returned(p, "add") /\ err[p] = "nil"
    /\ Len(call[p].imports) = 2
    /\ trace[p] = <<"ParseFile", "AddDependency", "AddDependency", "Fprint", "Open", "WriteFile">>

(***************************************************************************)
(* C14: AddImports keeps what it need not change.  As claimed: every       *)
(* manifest import entry whose key is the key of no import of the batch    *)
(* is in the manifest import list after the call, and so is every source   *)
(* import entry in the source import list.                                 *)
(***************************************************************************)
C14_KeepsOtherEntries ==
  \A p \in Main :
    Returned(p, "add")
    => /\ \A e \in Range(ParseImports(ManList(pre[p].flogoJson))) :
            GoImportPath(e) \notin BatchKeys(p)
            => e \in Range(ParseImports(ManList(flogoJson)))
       /\ SrcKeys(pre[p].importsGo) \subseteq SrcKeys(importsGo)

(***************************************************************************)
(* C14 as amended: every manifest import entry whose key is the key of no  *)
(* import of the batch and of no later entry of the list is in the         *)
(* manifest import list after the call, and so is every source import      *)
(* entry in the source import list.                                        *)
(***************************************************************************)
\* the entries that are the last of their key in the list
LastOfKey(imports) ==
  {imports[k] : k \in {j \in DOMAIN imports :
     \A l \in DOMAIN imports : l > j => GoImportPath(imports[l]) # GoImportPath(imports[j])}}

C14_KeepsLastOfOtherKeys ==
  \A p \in Main :
    Returned(p, "add")
    => /\ \A e \in LastOfKey(ParseImports(ManList(pre[p].flogoJson))) :
            GoImportPath(e) \notin BatchKeys(p)
            => e \in Range(ParseImports(ManList(flogoJson)))
       /\ SrcKeys(pre[p].importsGo) \subseteq SrcKeys(importsGo)

C14_Witness ==
  \E p \in Main :
    /\ Returned(p, "add") /\ err[p] = "nil"
    /\ call[p].imports = <<NewFlogoImport("n", "/x", "", "")>>
    /\ pre[p].importsGo.imports = <<"m">>
    /\ ManList(pre[p].flogoJson) = <<CanonicalImport(NewFlogoImport("m", "", "v1", "a")),
                                     CanonicalImport(NewFlogoImport("m", "", "v2", ""))>>
    /\ Range(ParseImports(ManList(flogoJson)))
         = {NewFlogoImport("m", "", "v2", ""), NewFlogoImport("n", "/x", "", "")}

(***************************************************************************)
(* C15: the merge rule.  After an AddImports that wrote flogo.json, the    *)
(* entry of every key of the batch has the module path, relative path and  *)
(* version of the last import of that key in the batch; an import whose    *)
(* key was not in the manifest is inserted as given, and an import whose   *)
(* canonical form the manifest held leaves the import entries unchanged.   *)
(***************************************************************************)
\* the last import of the batch with key k
LastInBatch(p, k) ==
  LET imports == call[p].imports
      n == CHOOSE j \in DOMAIN imports :
             /\ GoImportPath(imports[j]) = k
             /\ \A l \in DOMAIN imports : l > j => GoImportPath(imports[l]) # k
  IN  imports[n]

PathAndVersion(i) == <<i.modulePath, i.relativeImportPath, i.version>>

C15_MergeRule ==
  \A p \in Main :
    (Returned(p, "add") /\ "WriteFile" \in Range(trace[p]))
    => /\ \A k \in BatchKeys(p) :
            {PathAndVersion(e) : e \in EntriesOf(flogoJson, k)}
              = {PathAndVersion(LastInBatch(p, k))}
       /\ \A i \in Range(call[p].imports) :
            (OnlyOfKey(p, i) /\ GoImportPath(i) \notin ManKeys(pre[p].flogoJson))
            => EntriesOf(flogoJson, GoImportPath(i)) = {i}
       /\ ( /\ Len(call[p].imports) = 1
            /\ BatchKeys(p) \subseteq ManKeys(pre[p].flogoJson)
            /\ CanonicalImport(call[p].imports[1])
                 = CanonicalImport(Existing(p, GoImportPath(call[p].imports[1]))) )
          => Range(ParseImports(ManList(flogoJson)))
               = LastOfKey(ParseImports(ManList(pre[p].flogoJson)))

C15_Witness ==
  \E p \in Main :
    /\ Returned(p, "add") /\ "WriteFile" \in Range(trace[p])
    /\ call[p].imports = <<NewFlogoImport("m", "", "v2", "b"), NewFlogoImport("m", "", "v1", "a")>>
    /\ ManList(pre[p].flogoJson) = <<CanonicalImport(NewFlogoImport("m", "", "v2", ""))>>
    /\ ManList(flogoJson) = <<CanonicalImport(NewFlogoImport("m", "", "v1", "a"))>>

(***************************************************************************)
(* C17: an AddImports(false, I) that fails on an import that does not      *)
(* resolve writes neither file: no import after the failing one goes to    *)
(* AddDependency, imports.go is not printed and both files are as they     *)
(* were before the call.                                                   *)
(***************************************************************************)
\* index of the first import of the batch that does not resolve
FirstFailing(p) ==
  CHOOSE k \in DOMAIN call[p].imports :
    /\ ~Resolves(call[p].imports[k])
    /\ \A j \in 1..(k - 1) : Resolves(call[p].imports[j])

C17_StrictFailureWritesNothing ==
  \A p \in Main :
    ( /\ Returned(p, "add") /\ ~call[p].ignoreError
      /\ pre[p].importsGo.ok
      /\ \E i \in Range(call[p].imports) : ~Resolves(i) )
    => /\ err[p] = "error"
       /\ installed[p] = SubSeq(call[p].imports, 1, FirstFailing(p))
       /\ "Fprint" \notin Range(trace[p])
       /\ Files = pre[p]

C17_Witness ==
  \E p \in Main :
    /\ Returned(p, "add") /\ ~call[p].ignoreError /\ err[p] = "error"
    /\ Len(call[p].imports) = 2
    /\ Resolves(call[p].imports[1]) /\ ~Resolves(call[p].imports[2])
    /\ pre[p].importsGo.ok
    /\ GoImportPath(call[p].imports[1]) \notin SrcKeys(importsGo)

(***************************************************************************)
(* C18: with flogo.json missing, AddImports returns an error and creates   *)
(* no flogo.json, after it printed imports.go with the imports of the      *)
(* batch that resolved: the source import list ends with keys the          *)
(* manifest does not record.                                               *)
(***************************************************************************)
C18_MissingManifest ==
  \A p \in Main :
    ( /\ Returned(p, "add") /\ pre[p].importsGo.ok /\ ~pre[p].flogoJson.exists
      /\ (call[p].ignoreError \/ \A i \in Range(call[p].imports) : Resolves(i)) )
    => /\ err[p] = "error"
       /\ ~flogoJson.exists
       /\ "WriteFile" \notin Range(trace[p])
       /\ \E j \in Positions(trace[p], "Fprint") :
            \A k \in Positions(trace[p], "Open") : j < k
       /\ importsGo = [ok |-> TRUE,
                       imports |-> AddAll(pre[p].importsGo.imports,
                                          SelectSeq(call[p].imports, Resolves))]
       /\ (\E i \in Range(call[p].imports) : Resolves(i))
            => ~(SrcKeys(importsGo) \subseteq ManKeys(flogoJson))

C18_Witness ==
  \E p \in Main :
    /\ Returned(p, "add") /\ err[p] = "error"
    /\ ~pre[p].flogoJson.exists
    /\ pre[p].importsGo = [ok |-> TRUE, imports |-> <<>>]
    /\ importsGo.imports = <<"m">>
    /\ "Open" \in Range(trace[p])

(***************************************************************************)
(* C16: no protection against concurrent access.  With two AddImports      *)
(* invocations running at once on batches without a common key, a state is *)
(* reached in which both returned no error and flogo.json lacks the        *)
(* imports of one of them (C16_Witness).  The update of an invocation is   *)
(* lost only this way: the other invocation holds the batch of its own in  *)
(* the file, and read the file before the lost imports were written.       *)
(***************************************************************************)
BothReturned == \A p \in Procs : Returned(p, "add") /\ err[p] = "nil"

C16_LostUpdateOnlyByStaleRead ==
  BothReturned
  => /\ \E q \in Procs : BatchKeys(q) \subseteq ManKeys(flogoJson)
     /\ \E q \in Procs : BatchKeys(q) \subseteq SrcKeys(importsGo)
     /\ \A p \in Procs : \A q \in Procs \ {p} :
          /\ ~(BatchKeys(p) \subseteq ManKeys(flogoJson))
             => /\ BatchKeys(q) \subseteq ManKeys(flogoJson)
                /\ \A i \in Range(ParseImports(appDescriptor[q].imports)) :
                     GoImportPath(i) \notin BatchKeys(p) \ ManKeys(pre[p].flogoJson)
          /\ ~(BatchKeys(p) \subseteq SrcKeys(importsGo))
             => /\ BatchKeys(q) \subseteq SrcKeys(importsGo)
                /\ Range(file[q]) \cap (BatchKeys(p) \ SrcKeys(pre[p].importsGo)) = {}

C16_Witness ==
  /\ BothReturned
  /\ \E p \in Procs :
       /\ BatchKeys(p) # {}
       /\ BatchKeys(p) \cap ManKeys(flogoJson) = {}
       /\ BatchKeys(p) \subseteq SrcKeys(importsGo)

====
